---- MODULE Spec2Model ----
(***************************************************************************)
(* State machine of lcls_orbit.widgets.OrbitDisplay: the reference-capture *)
(* sampler, the nearest-extent colour binning and the data products the    *)
(* widget publishes (src/lcls_orbit/widgets.py).                           *)
(*                                                                         *)
(* Encoding of Python values:                                              *)
(*   None            the empty tuple <<>>; a present optional v is <<v>>   *)
(*   float           a reduced fraction <<num, den>>; NaN is <<0, 0>>      *)
(*   dict            a sequence of <<key, value>> pairs in insertion order *)
(*   ColumnDataSource.data   a function from column name to list           *)
(* A handler is an operator from the object's fields (a record) to the     *)
(* fields after the call; the field "raised" names the exception the call  *)
(* propagated to its caller, or "none". The history variable call names    *)
(* the handler called last and, for update(), what its monitors answered:  *)
(* failed when a fetch it made failed, color_val the colour signal it      *)
(* fetched, vals the readings when the call got as far as its reference    *)
(* block.                                                                  *)
(***************************************************************************)
EXTENDS Integers, Sequences, FiniteSets, TLC

VARIABLES _z, _monitor, _color_monitor, _extents, _color_map,
          _x_source, _y_source,
          _collecting_reference, _reference_measurements,
          _reference_n, _reference_count,
          _x_ref_source, _y_ref_source, line_color, raised, call

vars == <<_z, _monitor, _color_monitor, _extents, _color_map,
          _x_source, _y_source,
          _collecting_reference, _reference_measurements,
          _reference_n, _reference_count,
          _x_ref_source, _y_ref_source, line_color, raised, call>>

(* Largest reference_n a display is constructed with. *)
MaxReferenceN == 2

(* How many cycles a capture whose countdown started at or below zero is   *)
(* followed: such a countdown only moves away from zero.                   *)
MaxOverrun == 1

----------------------------------------------------------------------------
(* Python values *)

None == <<>>

NaN == <<0, 0>>

RECURSIVE GCD(_, _)
GCD(a, b) == IF b = 0 THEN a ELSE GCD(b, a % b)

Frac(n, d) == LET g == GCD(n, d) IN <<n \div g, d \div g>>

(* np.array(..., dtype=np.float64) of one entry: None becomes nan. *)
Float(v) == IF v = None THEN NaN ELSE <<v[1], 1>>

Abs(i) == IF i < 0 THEN -i ELSE i

RECURSIVE Sum(_)
Sum(s) == IF s = <<>> THEN 0 ELSE Head(s) + Sum(Tail(s))

(* dict: keys in insertion order, lookup and item assignment by key *)
Keys(d) == [i \in 1..Len(d) |-> d[i][1]]

Get(d, k) == d[CHOOSE i \in 1..Len(d) : d[i][1] = k][2]

(* ColumnDataSource.data.update(u): the columns of u replace or extend d. *)
DictUpdate(d, u) ==
    [k \in DOMAIN d \cup DOMAIN u |-> IF k \in DOMAIN u THEN u[k] ELSE d[k]]

(* range(start, stop, step) for step > 0 *)
RECURSIVE Range(_, _, _)
Range(start, stop, step) ==
    IF start >= stop THEN <<>> ELSE <<start>> \o Range(start + step, stop, step)

----------------------------------------------------------------------------
(* The fields of the object and the state they are held in *)

Self ==
    [_z |-> _z, _monitor |-> _monitor, _color_monitor |-> _color_monitor,
     _extents |-> _extents, _color_map |-> _color_map,
     _x_source |-> _x_source, _y_source |-> _y_source,
     _collecting_reference |-> _collecting_reference,
     _reference_measurements |-> _reference_measurements,
     _reference_n |-> _reference_n, _reference_count |-> _reference_count,
     _x_ref_source |-> _x_ref_source, _y_ref_source |-> _y_ref_source,
     line_color |-> line_color, raised |-> raised]

Install(s) ==
    /\ _z' = s._z
    /\ _monitor' = s._monitor
    /\ _color_monitor' = s._color_monitor
    /\ _extents' = s._extents
    /\ _color_map' = s._color_map
    /\ _x_source' = s._x_source
    /\ _y_source' = s._y_source
    /\ _collecting_reference' = s._collecting_reference
    /\ _reference_measurements' = s._reference_measurements
    /\ _reference_n' = s._reference_n
    /\ _reference_count' = s._reference_count
    /\ _x_ref_source' = s._x_ref_source
    /\ _y_ref_source' = s._y_ref_source
    /\ line_color' = s.line_color
    /\ raised' = s.raised

Raise(s, exc) == [s EXCEPT !.raised = exc]

----------------------------------------------------------------------------
(* Helpers of the handlers *)

(* [value for row, value in table.table_data["Z"].items()] *)
ZOf(table) == [i \in 1..Len(table.Z) |-> table.Z[i][2]]

(* {"X": {row: [] for row in table.rows}, "Y": {row: [] for row in table.rows}} *)
EmptyMeasurements(table) ==
    LET d == [i \in 1..Len(table.rows) |-> <<table.rows[i], <<>>>>]
    IN  [X |-> d, Y |-> d]

(* for device in vals: measurements[device].append(vals[device]) *)
AppendSamples(measurements, vals) ==
    [i \in 1..Len(measurements) |->
        LET device == measurements[i][1]
        IN  IF \E j \in 1..Len(vals) : vals[j][1] = device
            THEN <<device, Append(measurements[i][2], Get(vals, device))>>
            ELSE measurements[i]]

(* np.mean([x for x in samples if x != None]); the mean of no value is nan *)
Mean(samples) ==
    LET present == SelectSeq(samples, LAMBDA x : x # None)
        values  == [i \in 1..Len(present) |-> present[i][1]]
    IN  IF present = <<>> THEN NaN ELSE Frac(Sum(values), Len(values))

(* [np.mean(...) for device in measurements] *)
Means(measurements) ==
    [i \in 1..Len(measurements) |-> Mean(measurements[i][2])]

(* The 1-based places i of mean, in order, with not np.isnan(mean[i]) *)
RECURSIVE NotNaN(_, _)
NotNaN(mean, i) ==
    IF i > Len(mean) THEN <<>>
    ELSE (IF mean[i] # NaN THEN <<i>> ELSE <<>>) \o NotNaN(mean, i + 1)

LineZPacked(zs, mean) ==
    LET keep == NotNaN(mean, 1) IN [k \in 1..Len(keep) |-> zs[k]]

(* [self._z[i] for i, x in enumerate(mean) if not np.isnan(x)] *)
LineZ(zs, mean) ==
    LET keep == NotNaN(mean, 1) IN [k \in 1..Len(keep) |-> zs[keep[k]]]

(* [x for x in mean if not np.isnan(x)] *)
LineMean(mean) == SelectSeq(mean, LAMBDA x : x # NaN)

Kept(measurements) == measurements

(* for device in measurements: measurements[device] = [] *)
Cleared(measurements) ==
    [i \in 1..Len(measurements) |-> <<measurements[i][1], <<>>>>]

TickPerAxis(count) == count - 2

(* self._reference_count -= 1 *)
Tick(count) == count - 1

RearmedAtZero(reference_n) == 0

(* self._reference_count = self._reference_n *)
Rearmed(reference_n) == reference_n

RECURSIVE ArgMinLast(_, _, _)
ArgMinLast(a, i, best) ==
    IF i > Len(a) THEN best - 1
    ELSE ArgMinLast(a, i + 1, IF a[i] <= a[best] THEN i ELSE best)

(* (np.abs(extents - color_val)).argmin(): the 0-based place of the first   *)
(* minimum, found by one scan that replaces the best only by a smaller one. *)
RECURSIVE ArgMinFrom(_, _, _)
ArgMinFrom(a, i, best) ==
    IF i > Len(a) THEN best - 1
    ELSE ArgMinFrom(a, i + 1, IF a[i] < a[best] THEN i ELSE best)

ArgMin(extents, color_val) ==
    ArgMinFrom([i \in 1..Len(extents) |-> Abs(extents[i] - color_val)], 2, 1)

----------------------------------------------------------------------------
(* OrbitDisplay.__init__ *)

__init__(table, color_var, color_map, extents, reference_n) ==
    LET s == [_z |-> ZOf(table), _monitor |-> table,
              _color_monitor |-> IF color_var = None THEN "unset" ELSE "monitor",
              _extents |-> IF color_var = None \/ extents = None
                           THEN <<>> ELSE extents[1],
              _color_map |-> IF color_var = None \/ color_map = None
                             THEN <<>> ELSE color_map[1],
              _x_source |-> [x |-> <<>>, y |-> <<>>, device |-> <<>>, color |-> <<>>],
              _y_source |-> [x |-> <<>>, y |-> <<>>, device |-> <<>>, color |-> <<>>],
              _collecting_reference |-> FALSE,
              _reference_measurements |-> EmptyMeasurements(table),
              _reference_n |-> reference_n,
              _reference_count |-> reference_n,
              _x_ref_source |-> [x |-> <<>>, y |-> <<>>],
              _y_ref_source |-> [x |-> <<>>, y |-> <<>>],
              line_color |-> "default",
              raised |-> "none"]
    IN  IF color_var # None /\ extents = None THEN Raise(s, "ValueError")
        ELSE IF color_var # None /\ color_map = None THEN Raise(s, "ValueError")
        ELSE IF ZOf(table) = <<>> THEN Raise(s, "ValueError")
        ELSE IF extents = None THEN Raise(s, "TypeError")
        ELSE IF Len(extents[1]) < 2 THEN Raise(s, "IndexError")
        ELSE s

(* OrbitDisplay.update_table *)
update_table(s, table) ==
    [s EXCEPT !._monitor = table,
              !._z = ZOf(table),
              !._x_ref_source = DictUpdate(@, [x |-> <<>>, y |-> <<>>]),
              !._y_ref_source = DictUpdate(@, [x |-> <<>>, y |-> <<>>]),
              !._reference_measurements = EmptyMeasurements(table),
              !.raised = "none"]

(* OrbitDisplay.update, lines 205-244: the reference block, entered with    *)
(* this cycle's vals and color.                                             *)
collect(s, vals, color) ==
    IF ~s._collecting_reference THEN s
    ELSE
    LET count == Tick(s._reference_count)
        meas  == [X |-> AppendSamples(s._reference_measurements.X, vals.X),
                  Y |-> AppendSamples(s._reference_measurements.Y, vals.Y)]
        s1    == [s EXCEPT !._reference_count = count,
                           !._reference_measurements = meas]
    IN  IF count # 0 THEN s1
        ELSE
        LET x_mean == Means(meas.X)
            y_mean == Means(meas.Y)
        IN  [s1 EXCEPT
                !._collecting_reference = FALSE,
                !._reference_measurements =
                    [X |-> Cleared(meas.X), Y |-> Cleared(meas.Y)],
                !._reference_count = Rearmed(s._reference_n),
                !.line_color = color,
                !._x_ref_source =
                    DictUpdate(@, [x |-> LineZ(s._z, x_mean), y |-> LineMean(x_mean)]),
                !._y_ref_source =
                    DictUpdate(@, [x |-> LineZ(s._z, y_mean), y |-> LineMean(y_mean)])]

(* OrbitDisplay.update, lines 247-267: the raw series. min() of an empty    *)
(* array raises; the readings are never negative, so no Span is added.      *)
publish(s, vals, color) ==
    LET devices == Keys(vals.X)
        colors  == [i \in 1..Len(vals.X) |-> color]
        x       == [i \in 1..Len(vals.X) |-> Float(vals.X[i][2])]
        y       == [i \in 1..Len(vals.Y) |-> Float(vals.Y[i][2])]
    IN  IF x = <<>> \/ y = <<>> THEN Raise(s, "ValueError")
        ELSE [s EXCEPT
                !._x_source = DictUpdate(@,
                    [x |-> s._z, y |-> x, device |-> devices, color |-> colors]),
                !._y_source = DictUpdate(@,
                    [x |-> s._z, y |-> y, device |-> devices, color |-> colors]),
                !.raised = "none"]

update_polls_late(s, poll, color_poll) ==
    LET s1 == IF s._collecting_reference
              THEN [s EXCEPT !._reference_count = Tick(@)] ELSE s
    IN  IF ~poll.ok THEN Raise(s1, "PollError")
        ELSE IF s._color_monitor = "unset" THEN Raise(s, "AttributeError")
        ELSE IF ~color_poll.ok THEN Raise(s1, "PollError")
        ELSE IF color_poll.val = None THEN Raise(s, "TypeError")
        ELSE IF s._extents = <<>> THEN Raise(s, "ValueError")
        ELSE
        LET idx == ArgMin(s._extents, color_poll.val[1])
        IN  IF idx >= Len(s._color_map) THEN Raise(s, "IndexError")
            ELSE
            LET color == s._color_map[idx + 1]
            IN  publish(collect(s, poll.vals, color), poll.vals, color)

(* OrbitDisplay.update. poll and color_poll are what the two monitors       *)
(* answer this cycle: [ok |-> FALSE] when the fetch fails. No statement     *)
(* stores None in _color_monitor, so the default-colour branch of lines     *)
(* 201-203 is never taken: the attribute is a monitor or was never set.     *)
update(s, poll, color_poll) ==
    IF ~poll.ok THEN Raise(s, "PollError")
    ELSE IF s._color_monitor = "unset" THEN Raise(s, "AttributeError")
    ELSE IF ~color_poll.ok THEN Raise(s, "PollError")
    ELSE IF color_poll.val = None THEN Raise(s, "TypeError")
    ELSE IF s._extents = <<>> THEN Raise(s, "ValueError")
    ELSE
    LET idx == ArgMin(s._extents, color_poll.val[1])
    IN  IF idx >= Len(s._color_map) THEN Raise(s, "IndexError")
        ELSE
        LET color == s._color_map[idx + 1]
        IN  publish(collect(s, poll.vals, color), poll.vals, color)

(* OrbitDisplay.update_colormap *)
update_colormap(s, color_var, cmap, extents) ==
    LET s1 == [s EXCEPT !._color_map = cmap]
    IN  IF Len(extents) < 2 THEN Raise(s1, "IndexError")
        ELSE IF Len(cmap) = 0 THEN Raise(s1, "ValueError")
        ELSE [s1 EXCEPT
                !._extents = Range(extents[1], extents[2], Len(cmap)),
                !._color_monitor = "monitor",
                !.raised = "none"]

(* OrbitDisplay._collect_reference *)
_collect_reference(s) ==
    [s EXCEPT !._collecting_reference = TRUE, !.raised = "none"]

(* OrbitDisplay._reset_reference *)
_reset_reference(s) ==
    [s EXCEPT
        !._x_ref_source = DictUpdate(@, [x |-> <<>>, y |-> <<>>, color |-> <<>>]),
        !._y_ref_source = DictUpdate(@, [x |-> <<>>, y |-> <<>>, color |-> <<>>]),
        !.raised = "none"]

----------------------------------------------------------------------------
(* What the environment supplies: device tables, readings, colour signals  *)

TableA ==
    [rows |-> <<"BPM1", "BPM2">>, Z |-> <<<<"BPM1", 0>>, <<"BPM2", 10>>>>]

TableB == [rows |-> <<"BPM3">>, Z |-> <<<<"BPM3", 5>>>>]

TableEmpty == [rows |-> <<>>, Z |-> <<>>]

Tables == {TableA, TableB, TableEmpty}

(* One reading of one device on one axis: missing, or a position *)
Samples == {None, <<1>>}

(* The dicts a PVTable poll can return for one axis of a table *)
Dicts(rows, samples) ==
    {[i \in 1..Len(rows) |-> <<rows[i], f[i]>>] : f \in [1..Len(rows) -> samples]}

Polls(table, samples) ==
    {[ok |-> FALSE]} \cup
    {[ok |-> TRUE, vals |-> [X |-> dx, Y |-> dy]] :
        dx \in Dicts(table.rows, samples), dy \in Dicts(table.rows, samples)}

ColorPolls(color_vals) ==
    {[ok |-> FALSE]} \cup {[ok |-> TRUE, val |-> v] : v \in color_vals}

ColorMaps == {<<>>, <<"red", "blue">>, <<"red", "green", "blue">>}

ExtentsLists == {<<0>>, <<0, 10>>, <<0, 10, 20>>, <<0, 4>>, <<4, 0>>}

ColorVals == {None} \cup {<<v>> : v \in {1, 5, 14, 15, 16}}

(* Arguments of the constructor and of update_colormap *)
CtorArgs ==
    [table : Tables, color_var : {<<"pv">>}, color_map : {<<<<"red", "blue">>>>},
     extents : {<<<<0, 10>>>>}, reference_n : 0..MaxReferenceN]

ColorCtorArgs ==
    [table : {TableB}, color_var : {None, <<"pv">>},
     color_map : {None} \cup {<<m>> : m \in ColorMaps},
     extents : {None} \cup {<<e>> : e \in ExtentsLists}, reference_n : {1}]

ColormapArgs == [cmap : ColorMaps, extents : ExtentsLists]

----------------------------------------------------------------------------
(* Initial states: the objects the constructor returns *)

(* The history of a call that is not update() *)
Called(op) == [op |-> op, failed |-> FALSE, color_val |-> None, vals |-> None]

Constructed(args) ==
    \E a \in args :
        LET s == __init__(a.table, a.color_var, a.color_map, a.extents, a.reference_n)
        IN  /\ s.raised = "none"
            /\ _z = s._z
            /\ _monitor = s._monitor
            /\ _color_monitor = s._color_monitor
            /\ _extents = s._extents
            /\ _color_map = s._color_map
            /\ _x_source = s._x_source
            /\ _y_source = s._y_source
            /\ _collecting_reference = s._collecting_reference
            /\ _reference_measurements = s._reference_measurements
            /\ _reference_n = s._reference_n
            /\ _reference_count = s._reference_count
            /\ _x_ref_source = s._x_ref_source
            /\ _y_ref_source = s._y_ref_source
            /\ line_color = s.line_color
            /\ raised = s.raised
            /\ call = Called("__init__")

Init == Constructed(CtorArgs)

InitColor == Constructed(ColorCtorArgs)

----------------------------------------------------------------------------
(* Actions: one call of one handler *)

(* A fetch that update() makes with these answers fails. *)
FetchFailed(poll, color_poll) ==
    \/ ~poll.ok
    \/ _color_monitor = "monitor" /\ ~color_poll.ok

(* The call update() with these answers gets past both fetches and the     *)
(* colour lookup, that is, as far as the reference block.                  *)
Binned(poll, color_poll) ==
    /\ poll.ok
    /\ _color_monitor = "monitor"
    /\ color_poll.ok
    /\ color_poll.val # None
    /\ _extents # <<>>
    /\ ArgMin(_extents, color_poll.val[1]) < Len(_color_map)

UpdateStep(poll, color_poll) ==
    /\ Install(update(Self, poll, color_poll))
    /\ call' = [op |-> "update",
                failed |-> FetchFailed(poll, color_poll),
                color_val |-> IF poll.ok /\ _color_monitor = "monitor" /\ color_poll.ok
                              THEN <<color_poll.val>> ELSE None,
                vals |-> IF Binned(poll, color_poll) THEN <<poll.vals>> ELSE None]

Update(samples, color_vals) ==
    /\ _collecting_reference => _reference_count + MaxOverrun > 0
    /\ \E poll \in Polls(_monitor, samples), color_poll \in ColorPolls(color_vals) :
          UpdateStep(poll, color_poll)

UpdateTable(tables) ==
    /\ \E table \in tables : Install(update_table(Self, table))
    /\ call' = Called("update_table")

UpdateColormap(args) ==
    /\ \E a \in args : Install(update_colormap(Self, <<"pv">>, a.cmap, a.extents))
    /\ call' = Called("update_colormap")

CollectReference ==
    /\ Install(_collect_reference(Self))
    /\ call' = Called("_collect_reference")

ResetReference ==
    /\ Install(_reset_reference(Self))
    /\ call' = Called("_reset_reference")

(* The reference capture: every handler that reads or writes the capture   *)
(* state, on tables of two, one and no device, under one valid colour      *)
(* configuration and one colour signal value.                              *)
Next ==
    \/ Update(Samples, {<<1>>})
    \/ UpdateTable(Tables)
    \/ CollectReference
    \/ ResetReference

Spec == Init /\ [][Next]_vars

(* The colour binning: every handler, on the one-device table with one    *)
(* reading, under every colour configuration the constructor and           *)
(* update_colormap accept and every colour signal value.                   *)
NextColor ==
    \/ Update({<<1>>}, ColorVals)
    \/ UpdateTable({TableB})
    \/ UpdateColormap(ColormapArgs)
    \/ CollectReference
    \/ ResetReference

SpecColor == InitColor /\ [][NextColor]_vars

----------------------------------------------------------------------------
(* Vocabulary of the properties *)

(* Every per-device accumulator of both axes is empty. *)
AccumulatorsEmpty ==
    /\ \A i \in 1..Len(_reference_measurements.X) :
          _reference_measurements.X[i][2] = <<>>
    /\ \A i \in 1..Len(_reference_measurements.Y) :
          _reference_measurements.Y[i][2] = <<>>

(* No reference curve is published on either plot. *)
ReferenceCurvesEmpty ==
    /\ _x_ref_source.x = <<>> /\ _x_ref_source.y = <<>>
    /\ _y_ref_source.x = <<>> /\ _y_ref_source.y = <<>>

(* measurements' is measurements with exactly the sample of vals appended  *)
(* to every device's list.                                                 *)
OneMore(before, after, vals) ==
    /\ Len(after) = Len(before)
    /\ \A i \in 1..Len(before) :
          /\ after[i][1] = before[i][1]
          /\ Len(after[i][2]) = Len(before[i][2]) + 1
          /\ SubSeq(after[i][2], 1, Len(before[i][2])) = before[i][2]
          /\ after[i][2][Len(after[i][2])] = vals[i][2]

(* C3: while capturing, an update() that gets as far as the reference      *)
(* block takes the countdown down by exactly 1 and appends exactly this    *)
(* cycle's sample to every device's X and Y accumulator, completing the    *)
(* capture exactly when one tick was left; any other update() (not         *)
(* capturing, or failed before the block) leaves the countdown, the        *)
(* accumulators and the flag alone; and no other handler moves the         *)
(* countdown.                                                              *)
C3_OneTickPerCycle ==
    [][IF call'.op = "update"
       THEN IF _collecting_reference /\ call'.vals # None
            THEN IF _reference_count = 1
                 THEN ~_collecting_reference'
                 ELSE /\ _collecting_reference'
                      /\ _reference_count' = _reference_count - 1
                      /\ OneMore(_reference_measurements.X,
                                 _reference_measurements.X', call'.vals[1].X)
                      /\ OneMore(_reference_measurements.Y,
                                 _reference_measurements.Y', call'.vals[1].Y)
            ELSE /\ _reference_count' = _reference_count
                 /\ _reference_measurements' = _reference_measurements
                 /\ _collecting_reference' = _collecting_reference
       ELSE _reference_count' = _reference_count
      ]_vars

(* A capture of target 2 on the two-device table after its first cycle. *)
C3_Witness ==
    /\ _collecting_reference
    /\ _reference_n = 2
    /\ _reference_count = 1
    /\ raised = "none"
    /\ Len(_reference_measurements.X) = 2
    /\ \A i \in 1..2 : Len(_reference_measurements.X[i][2]) = 1
    /\ \A i \in 1..2 : Len(_reference_measurements.Y[i][2]) = 1

(* The places of the devices with at least one non-missing sample among    *)
(* the accumulated ones and this cycle's.                                  *)
PresentRows(measurements, vals) ==
    {i \in 1..Len(measurements) :
        \/ \E k \in 1..Len(measurements[i][2]) : measurements[i][2][k] # None
        \/ Get(vals, measurements[i][1]) # None}

(* The k-th smallest member of a set of integers *)
Nth(K, k) == CHOOSE i \in K : Cardinality({j \in K : j < i}) = k - 1

(* The non-missing values of device i among the accumulated samples and    *)
(* this cycle's.                                                           *)
PresentValues(measurements, vals, i) ==
    LET window == Append(measurements[i][2], Get(vals, measurements[i][1]))
        kept   == SelectSeq(window, LAMBDA x : x # None)
    IN  [k \in 1..Len(kept) |-> kept[k][1]]

(* source holds the curve of the window: one point per device with a       *)
(* non-missing sample, in row order, at the z of the device's own row,     *)
(* with the mean of its non-missing samples.                               *)
CurveOf(source, zs, measurements, vals) ==
    LET K == PresentRows(measurements, vals)
    IN  /\ Len(source.x) = Cardinality(K)
        /\ Len(source.y) = Len(source.x)
        /\ Len(source.x) <= Len(measurements)
        /\ \A k \in 1..Cardinality(K) :
              LET i == Nth(K, k)
                  p == PresentValues(measurements, vals, i)
              IN  /\ source.x[k] = zs[i]
                  /\ source.y[k] # NaN
                  /\ source.y[k][1] * Len(p) = source.y[k][2] * Sum(p)

(* This step is the update() that takes a capture's countdown to zero. *)
Completing ==
    /\ call'.op = "update"
    /\ call'.vals # None
    /\ _collecting_reference
    /\ _reference_count = 1

(* C1: reset_capture() leaves every accumulator and both published         *)
(* reference curves empty and the is-capturing flag as it was (stated for  *)
(* the displays with a target count of at least 1).                        *)
C1_ResetClearsAll ==
    [][(call'.op = "_reset_reference" /\ _reference_n >= 1) =>
          /\ AccumulatorsEmpty'
          /\ ReferenceCurvesEmpty'
          /\ _collecting_reference' = _collecting_reference
      ]_vars

(* C2: replacing the device table while a capture is in progress abandons  *)
(* the capture: accumulators and reference curves empty, countdown back at *)
(* the target, is-capturing false.                                         *)
C2_TableChangeAbandonsCapture ==
    [][(/\ call'.op = "update_table"
        /\ _collecting_reference
        /\ 0 < _reference_count
        /\ _reference_count < _reference_n) =>
          /\ AccumulatorsEmpty'
          /\ ReferenceCurvesEmpty'
          /\ _reference_count' = _reference_n
          /\ ~_collecting_reference'
      ]_vars

(* C4: the update() in which the countdown reaches zero completes the      *)
(* capture within that call: every accumulator empty, the countdown back   *)
(* at the target, is-capturing false, and on both plots a reference curve  *)
(* with one point per device that had a non-missing sample, so that the    *)
(* capture state is that of a display on which none was ever started.      *)
C4_CompletionIsAtomic ==
    [][Completing =>
          /\ AccumulatorsEmpty'
          /\ _reference_count' = _reference_n
          /\ _reference_n' = _reference_n
          /\ ~_collecting_reference'
          /\ Len(_x_ref_source'.x) =
                Cardinality(PresentRows(_reference_measurements.X, call'.vals[1].X))
          /\ Len(_x_ref_source'.y) = Len(_x_ref_source'.x)
          /\ Len(_y_ref_source'.x) =
                Cardinality(PresentRows(_reference_measurements.Y, call'.vals[1].Y))
          /\ Len(_y_ref_source'.y) = Len(_y_ref_source'.x)
      ]_vars

(* A second capture under way while the curve of the first is shown. *)
C4_Witness ==
    /\ _collecting_reference
    /\ _reference_n = 2
    /\ _reference_count = 1
    /\ ~AccumulatorsEmpty
    /\ _x_ref_source.x # <<>>
    /\ _y_ref_source.x # <<>>

(* C5: the reference curve published at completion holds, for each axis    *)
(* and in row order, exactly the devices with at least one non-missing     *)
(* sample in the window, each at the z of its own row and with the mean of *)
(* its non-missing samples; positions and values have the same length, at  *)
(* most the number of rows.                                                *)
C5_CurveIsFilteredAndAligned ==
    [][Completing =>
          /\ CurveOf(_x_ref_source', _z,
                     _reference_measurements.X, call'.vals[1].X)
          /\ CurveOf(_y_ref_source', _z,
                     _reference_measurements.Y, call'.vals[1].Y)
      ]_vars

(* On the two-device table: X seen only at the second device, Y only at    *)
(* the first.                                                              *)
C5_Witness ==
    /\ ~_collecting_reference
    /\ _z = <<0, 10>>
    /\ _x_ref_source.x = <<10>>
    /\ _x_ref_source.y = <<<<1, 1>>>>
    /\ _y_ref_source.x = <<0>>
    /\ _y_ref_source.y = <<<<1, 1>>>>

(* C6: no display with a target count of zero or less exists, and no       *)
(* capture runs on a countdown at or below zero.                           *)
C6_TargetIsPositive ==
    /\ _reference_n >= 1
    /\ _collecting_reference => _reference_count >= 1

(* C7: an update() in which a fetch fails raises to its caller and leaves  *)
(* the raw series, the reference curves, the accumulators, the countdown   *)
(* and the is-capturing flag (and every other field) as they were.         *)
C7_FailedFetchChangesNothing ==
    [][(call'.op = "update" /\ call'.failed) =>
          /\ raised' = "PollError"
          /\ UNCHANGED <<_z, _monitor, _color_monitor, _extents, _color_map,
                         _x_source, _y_source, _collecting_reference,
                         _reference_measurements, _reference_n,
                         _reference_count, _x_ref_source, _y_ref_source,
                         line_color>>
      ]_vars

(* A fetch has just failed in the middle of a capture. *)
C7_Witness ==
    /\ call.op = "update"
    /\ call.failed
    /\ raised = "PollError"
    /\ _collecting_reference
    /\ _reference_count < _reference_n
    /\ ~AccumulatorsEmpty

(* C8: the stored extents and colour map have equal length. *)
C8_ExtentsMatchColorMap == Len(_extents) = Len(_color_map)

(* i is the 0-based place of the extent nearest to v, the lowest one when  *)
(* several are equally near.                                               *)
NearestLowest(extents, v, i) ==
    /\ \A j \in 1..Len(extents) : Abs(extents[i + 1] - v) <= Abs(extents[j] - v)
    /\ \A j \in 1..i : Abs(extents[j] - v) > Abs(extents[i + 1] - v)

(* C9: an update() that fetched the signal value v against non-empty       *)
(* extents applies color_map[i] to every device of the cycle, on both      *)
(* plots, where i is the place of the extent nearest to v and the lowest   *)
(* such place on a tie; when color_map has no place i the call raises      *)
(* IndexError and publishes nothing.                                       *)
C9_NearestExtentLowestIndex ==
    [][(/\ call'.op = "update"
        /\ call'.color_val # None
        /\ call'.color_val[1] # None
        /\ _extents # <<>>) =>
          LET v == call'.color_val[1][1]
              i == CHOOSE i \in 0..(Len(_extents) - 1) :
                      NearestLowest(_extents, v, i)
          IN  /\ \E j \in 0..(Len(_extents) - 1) : NearestLowest(_extents, v, j)
              /\ IF i < Len(_color_map)
                 THEN /\ raised' \in {"none", "ValueError"}
                      /\ raised' = "none" =>
                            /\ Len(_x_source'.color) = Len(_monitor.rows)
                            /\ Len(_y_source'.color) = Len(_monitor.rows)
                            /\ \A k \in 1..Len(_monitor.rows) :
                                  /\ _x_source'.color[k] = _color_map[i + 1]
                                  /\ _y_source'.color[k] = _color_map[i + 1]
                 ELSE /\ raised' = "IndexError"
                      /\ UNCHANGED <<_x_source, _y_source>>
      ]_vars

(* The value 15, as near to 10 as to 20, coloured with the colour of 10. *)
C9_Witness ==
    /\ call.op = "update"
    /\ raised = "none"
    /\ _extents = <<0, 10, 20>>
    /\ _color_map = <<"red", "green", "blue">>
    /\ call.color_val = <<<<15>>>>
    /\ _x_source.color = <<"green">>
    /\ _y_source.color = <<"green">>

(* C10: with a target count of at least 1, between calls the countdown is  *)
(* at least 1 and at most the target, and whenever no capture is active    *)
(* every accumulator is empty and the countdown is the target.             *)
C10_IdleIsClean ==
    _reference_n >= 1 =>
        /\ 1 <= _reference_count
        /\ _reference_count <= _reference_n
        /\ ~_collecting_reference =>
              (AccumulatorsEmpty /\ _reference_count = _reference_n)

(* Idle again after a capture of target 2 that published a curve. *)
C10_Witness ==
    /\ _reference_n = 2
    /\ ~_collecting_reference
    /\ call.op = "update"
    /\ _x_ref_source.x # <<>>
    /\ _reference_count = 2
    /\ AccumulatorsEmpty

====
